---- MODULE Spec2Model ----
(***************************************************************************)
(* Model of backend/src/services/visionService.js: the VisionService       *)
(* circuit breaker, the retry loop of executeWithRetry and the error       *)
(* classification of transformError / isNonRetryableError.                 *)
(*                                                                         *)
(* One analyzeImage call runs in atomic steps separated by its awaits:     *)
(*   AnalyzeImage     - entry up to the first provider call                *)
(*   ProviderResolves - the awaited annotateImage promise fulfils          *)
(*   ProviderRejects  - the awaited annotateImage promise rejects          *)
(*   TimeoutFires     - createTimeoutPromise wins the Promise.race         *)
(*   SleepEnds        - the back-off sleep ends, next attempt starts       *)
(* Tick advances Date.now().  Times are in milliseconds.  ClearClient is    *)
(* the assignment visionService.client = null.  SharedSpec runs two calls  *)
(* on one service: a slow call overlapped by a series of fast calls.       *)
(*                                                                         *)
(* Model of backend/src/services/ratingService.js: calculateRating with    *)
(* findMatches, processTextAnnotations and calculateContextualAdjustments  *)
(* as operators over integers (confidences in hundredths, match scores as  *)
(* fractions), and updatePerformativeItems.  RatingSpec makes the service's *)
(* calls one at a time on this.performativeItems:                          *)
(*   CalculateRating         - calculateRating(labels, {textAnnotations})  *)
(*   UpdatePerformativeItems - updatePerformativeItems(newItems)           *)
(*   Return                  - the outcome is handed to the caller         *)
(* MatchSpec calls findMatches and processTextAnnotations directly:        *)
(*   FindMatches             - findMatches(labelText, confidence)          *)
(*   ProcessTextAnnotations  - processTextAnnotations(textAnnotations)     *)
(***************************************************************************)
EXTENDS Integers, Sequences, FiniteSets, TLC

\* ------------------------------------------------------------ constants
maxRetries == 3
retryDelay == 1000
timeout == 30000
failureThreshold == 5
resetTimeout == 60000
halfOpenSuccessThreshold == 2
\* lastFailureTime: null (ToNumber(null) = 0 in `now - lastFailureTime`)
Null == -1

\* ------------------------------------------------------------ bounds
\* number of analyzeImage calls started in one behaviour
MaxCalls == 7
\* the clock stops advancing past this instant (ms)
MaxTime == 95000

\* the analyzeImage invocations that may be in flight
Calls == {"c1"}

\* ------------------------------------------------------------ strings
\* String.prototype.includes
Includes(s, sub) ==
  \E i \in 1..(Len(s) - Len(sub) + 1) : SubSeq(s, i, i + Len(sub) - 1) = sub

\* Math.pow(2, n) for n >= 0
RECURSIVE Pow2(_)
Pow2(n) == IF n <= 0 THEN 1 ELSE 2 * Pow2(n - 1)

\* ------------------------------------------------------------ rating service: data
\* String.prototype.toLowerCase, letter by letter
UpperCase == "ABCDEFGHIJKLMNOPQRSTUVWXYZ"
LowerCase == "abcdefghijklmnopqrstuvwxyz"
lowerOf ==
  [c \in {SubSeq(UpperCase, i, i) : i \in 1..Len(UpperCase)} |->
     LET i == CHOOSE k \in 1..Len(UpperCase) : SubSeq(UpperCase, k, k) = c
     IN  SubSeq(LowerCase, i, i)]
toLowerChar(c) == IF c \in DOMAIN lowerOf THEN lowerOf[c] ELSE c
RECURSIVE toLowerCase(_)
toLowerCase(s) ==
  IF Len(s) = 0 THEN ""
  ELSE toLowerChar(SubSeq(s, 1, 1)) \o toLowerCase(SubSeq(s, 2, Len(s)))

\* String.prototype.trim: leading and trailing spaces are dropped
RECURSIVE trim(_)
trim(s) ==
  IF Len(s) = 0 THEN ""
  ELSE IF SubSeq(s, 1, 1) = " " THEN trim(SubSeq(s, 2, Len(s)))
  ELSE IF SubSeq(s, Len(s), Len(s)) = " " THEN trim(SubSeq(s, 1, Len(s) - 1))
  ELSE s

\* Array.prototype.join(' ') of a sequence of strings
RECURSIVE join(_)
join(strings) ==
  IF Len(strings) = 0 THEN ""
  ELSE IF Len(strings) = 1 THEN strings[1]
  ELSE strings[1] \o " " \o join(Tail(strings))

\* Math.round of the rational n / d (d > 0): floor(n / d + 1/2)
round(n, d) == (2 * n + d) \div (2 * d)

\* a number kept as the fraction num / den (matchScore, similarity)
Frac(n, d) == [num |-> n, den |-> d]
Greater(a, b) == a.num * b.den > b.num * a.den

\* an object as the sequence of its own properties in insertion order (Object.entries)
Entry(k, v) == [key |-> k, value |-> v]
hasOwnProperty(obj, k) == \E i \in 1..Len(obj) : obj[i].key = k
\* obj[k] || 0
Get(obj, k) ==
  IF hasOwnProperty(obj, k)
    THEN obj[CHOOSE i \in 1..Len(obj) : obj[i].key = k].value
    ELSE 0
\* obj[k] = v: an own property keeps its place, a new one is added last
Put(obj, k, v) ==
  IF hasOwnProperty(obj, k)
    THEN [i \in 1..Len(obj) |-> IF obj[i].key = k THEN Entry(k, v) ELSE obj[i]]
    ELSE Append(obj, Entry(k, v))
\* an object literal: a key written twice keeps its first place and its last value
RECURSIVE ObjectLiteral(_)
ObjectLiteral(pairs) ==
  IF Len(pairs) = 0 THEN <<>>
  ELSE LET n == Len(pairs)
       IN  Put(ObjectLiteral(SubSeq(pairs, 1, n - 1)), pairs[n].key, pairs[n].value)

\* this.performativeItems as the constructor writes it, restricted to the keys a label
\* of LabelPool or MatchLabels can match exactly, semantically or with similarity above 0.5, and
\* the keys the claims name; 'tote bag' and 'book' are written twice in the source
performativeItemsLiteral ==
  << Entry("matcha", 15), Entry("tote bag", 12), Entry("book", 10),
     Entry("labubu", 20), Entry("tote bag", 18), Entry("oat milk", 16),
     Entry("gaming", 8), Entry("shaving", 3), Entry("smoking", 4),
     Entry("music", 4), Entry("book", 10), Entry("poetry", 14), Entry("reading", 6) >>

\* textPatterns of processTextAnnotations, restricted to the patterns that occur in
\* the joined text of some array of TextInputs or SpanArrays
textPatterns ==
  << Entry("new yorker", 20), Entry("the new yorker", 20), Entry("criterion", 19),
     Entry("a24", 22), Entry("merge", 15) >>

\* semanticMap of getSemanticMatches: label -> mappings; score in tenths; `terms` are
\* the words of the mapping's condition (text.includes(t) for some t), {} if none
Mapping(k, s, terms) == [keyword |-> k, score |-> s, terms |-> terms]
semanticMap ==
  << Entry("tea", << Mapping("matcha", 9, {}), Mapping("green tea", 8, {}) >>),
     Entry("musician", << Mapping("indie artist", 7, {}) >>),
     Entry("book", << Mapping("feminist literature", 3, {"feminist", "women"}),
                      Mapping("indie literature", 4, {}),
                      Mapping("poetry", 3, {}) >>) >>

\* ------------------------------------------------------------ rating service: matching
min3(a, b, c) == IF a <= b /\ a <= c THEN a ELSE IF b <= c THEN b ELSE c

\* one row of levenshteinDistance's matrix: `row` holds matrix[i][0..Len(row)-1],
\* `up` is matrix[i-1], c is str2.charAt(i-1)
RECURSIVE matrixRow(_, _, _, _)
matrixRow(str1, c, up, row) ==
  IF Len(row) = Len(str1) + 1 THEN row
  ELSE LET j == Len(row)
           cell == IF c = SubSeq(str1, j, j)
                     THEN up[j]
                     ELSE min3(up[j] + 1, row[j] + 1, up[j + 1] + 1)
       IN  matrixRow(str1, c, up, Append(row, cell))

RECURSIVE matrix(_, _, _)
matrix(str1, str2, i) ==
  IF i = 0 THEN [j \in 1..(Len(str1) + 1) |-> j - 1]
  ELSE matrixRow(str1, SubSeq(str2, i, i), matrix(str1, str2, i - 1), <<i>>)

levenshteinDistance(str1, str2) == matrix(str1, str2, Len(str2))[Len(str1) + 1]

calculateStringSimilarity(str1, str2) ==
  LET longer == IF Len(str1) > Len(str2) THEN str1 ELSE str2
      shorter == IF Len(str1) > Len(str2) THEN str2 ELSE str1
  IN  IF Len(longer) = 0 THEN Frac(1, 1)
      ELSE Frac(Len(longer) - levenshteinDistance(longer, shorter), Len(longer))

\* getSemanticMatches(labelText, allLabels): the mappings of the label whose condition
\* holds and whose keyword has a positive weight.  Every condition of the modelled
\* entries reads only the label's own text.
getSemanticMatches(items, labelText) ==
  LET mappings == IF hasOwnProperty(semanticMap, labelText)
                    THEN Get(semanticMap, labelText) ELSE <<>>
      holds(m) == m.terms = {} \/ \E t \in m.terms : Includes(labelText, t)
      positive(m) == Get(items, m.keyword) > 0
      kept == SelectSeq(SelectSeq(mappings, holds), positive)
  IN  [i \in 1..Len(kept) |->
         [keyword |-> kept[i].keyword, score |-> Frac(kept[i].score, 10),
          points |-> Get(items, kept[i].keyword)]]

Match(k, type, score, points) ==
  [keyword |-> k, matchType |-> type, matchScore |-> score, adjustedPoints |-> points]

\* matches.sort((a, b) => b.matchScore - a.matchScore): stable, descending
RECURSIVE sortByMatchScore(_)
sortByMatchScore(matches) ==
  IF Len(matches) <= 1 THEN matches
  ELSE LET n == Len(matches)
           m == matches[n]
           sorted == sortByMatchScore(SubSeq(matches, 1, n - 1))
           k == Cardinality({i \in 1..(n - 1) : ~Greater(m.matchScore, sorted[i].matchScore)})
       IN  SubSeq(sorted, 1, k) \o <<m>> \o SubSeq(sorted, k + 1, n - 1)

\* the exact branch of findMatches: Math.round(weight * confidence)
exactMatch(items, labelText, confidence) ==
  Match(labelText, "exact", Frac(1, 1), round(Get(items, labelText) * confidence, 100))

\* the semantic branch: Math.round(points * confidence * score)
semanticMatches(items, labelText, confidence) ==
  LET found == getSemanticMatches(items, labelText)
  IN  [i \in 1..Len(found) |->
         Match(found[i].keyword, "semantic", found[i].score,
               round(found[i].points * confidence * found[i].score.num,
                     100 * found[i].score.den))]

\* the partial branch: every dictionary entry whose similarity exceeds 0.5
partialMatches(items, labelText, confidence) ==
  LET scored == [i \in 1..Len(items) |->
                  [key |-> items[i].key, value |-> items[i].value,
                   similarity |-> calculateStringSimilarity(labelText, items[i].key)]]
      similar(e) == Greater(e.similarity, Frac(1, 2))
      found == SelectSeq(scored, similar)
  IN  [i \in 1..Len(found) |->
         Match(found[i].key, "partial", found[i].similarity,
               round(found[i].value * confidence * found[i].similarity.num,
                     100 * found[i].similarity.den))]

\* mutant: an exact match does not end the search
findMatches_noReturn(items, labelText, confidence) ==
  (IF hasOwnProperty(items, labelText)
     THEN <<exactMatch(items, labelText, confidence)>> ELSE <<>>)
    \o semanticMatches(items, labelText, confidence)

\* mutant: the dictionary is searched for similar keys after a semantic match too
findMatches_mixed(items, labelText, confidence) ==
  IF hasOwnProperty(items, labelText)
    THEN <<exactMatch(items, labelText, confidence)>>
    ELSE LET matches == semanticMatches(items, labelText, confidence)
                          \o partialMatches(items, labelText, confidence)
             sorted == sortByMatchScore(matches)
         IN  SubSeq(sorted, 1, IF Len(sorted) < 3 THEN Len(sorted) ELSE 3)

\* findMatches(labelText, confidence, allLabels); confidence in hundredths
findMatches(items, labelText, confidence) ==
  IF hasOwnProperty(items, labelText)
    THEN <<exactMatch(items, labelText, confidence)>>
    ELSE LET semantic == semanticMatches(items, labelText, confidence)
             matches == IF Len(semantic) = 0
                          THEN partialMatches(items, labelText, confidence)
                          ELSE semantic
             sorted == sortByMatchScore(matches)
         IN  SubSeq(sorted, 1, IF Len(sorted) < 3 THEN Len(sorted) ELSE 3)

\* ------------------------------------------------------------ rating service: scoring
\* an element of the labels array: null, or an object with the properties in `has`;
\* score (the Vision confidence) is in hundredths
Label(d, sc) == [null |-> FALSE, has |-> {"description", "score"}, description |-> d, score |-> sc]
NullLabel == [null |-> TRUE, has |-> {}, description |-> "", score |-> 0]
NoDescription(sc) == [null |-> FALSE, has |-> {"score"}, description |-> "", score |-> sc]
NoScore(d) == [null |-> FALSE, has |-> {"description"}, description |-> d, score |-> 0]

\* a detected item; confidence in hundredths
Item(name, points, confidence, type, original) ==
  [item |-> name, points |-> points, confidence |-> confidence, matchType |-> type,
   originalLabel |-> original]

\* mutant: only the first span is searched for whole phrases
allTextOf_firstSpan(textAnnotations) ==
  toLowerCase(IF Len(textAnnotations) = 0 THEN "" ELSE textAnnotations[1])

\* allText: textAnnotations.map(a => a.description || '').join(' ').toLowerCase()
allTextOf(textAnnotations) == toLowerCase(join(textAnnotations))

RECURSIVE flatten(_)
flatten(seqs) == IF Len(seqs) = 0 THEN <<>> ELSE seqs[1] \o flatten(Tail(seqs))

\* processTextAnnotations(textAnnotations); an annotation is its description
processTextAnnotations(textAnnotations) ==
  LET allText == allTextOf(textAnnotations)
      of(e) ==
        IF Includes(allText, e.key)
          THEN <<Item(e.key, e.value, 90, "text", "Text: \"" \o e.key \o "\"")>>
        ELSE IF ~Includes(e.key, " ")
          THEN LET fits(description) ==
                     /\ Includes(toLowerCase(description), e.key)
                     /\ Len(description) <= Len(e.key) + 3
                   spans == SelectSeq(textAnnotations, fits)
               IN  [i \in 1..Len(spans) |->
                      Item(e.key, round(e.value * 8, 10), 80, "text-partial",
                           "Text: \"" \o spans[i] \o "\"")]
        ELSE <<>>
  IN  flatten([i \in 1..Len(textPatterns) |-> of(textPatterns[i])])

\* the data of calculateContextualAdjustments
synergies ==
  << [items |-> {"tote bag", "book"}, bonus |-> 8],
     [items |-> {"film camera", "vintage"}, bonus |-> 6],
     [items |-> {"matcha", "oat milk"}, bonus |-> 5],
     [items |-> {"beanie", "tote bag"}, bonus |-> 4],
     [items |-> {"macbook", "coffee"}, bonus |-> 3],
     [items |-> {"yoga mat", "plant"}, bonus |-> 4],
     [items |-> {"vinyl", "clairo"}, bonus |-> 7],
     [items |-> {"book", "feminist"}, bonus |-> 6],
     [items |-> {"tote bag", "feminist literature"}, bonus |-> 8],
     [items |-> {"coffee", "book", "female author"}, bonus |-> 5],
     [items |-> {"vinyl records", "female artist"}, bonus |-> 6] >>

contextPenalties ==
  << [terms |-> {"gym", "workout", "fitness", "muscle", "bodybuilding"}, penalty |-> 0 - 5],
     [terms |-> {"gaming", "video game", "controller", "xbox", "playstation"}, penalty |-> 0 - 3],
     [terms |-> {"suit", "tie", "formal", "business"}, penalty |-> 0 - 4] >>

categories ==
  << {"matcha", "coffee", "tea", "kombucha", "oat milk"},
     {"tote bag", "beanie", "sunglasses", "boots"},
     {"macbook", "airpods", "film camera"},
     {"yoga mat", "plant", "book", "candle"},
     {"vinyl", "clairo", "phoebe bridgers", "mitski", "taylor swift", "record player"},
     {"feminist", "sally rooney", "joan didion", "susan sontag", "book", "novel"},
     {"new yorker", "criterion", "a24", "pitchfork", "paris review"} >>

RECURSIVE sum(_)
sum(numbers) == IF Len(numbers) = 0 THEN 0 ELSE numbers[1] + sum(Tail(numbers))

\* the synergy rules: every item of the rule is contained in, or contains, a detected name
synergyBonus(itemNames) ==
  sum([i \in 1..Len(synergies) |->
         IF \A item \in synergies[i].items :
              \E detected \in itemNames : Includes(detected, item) \/ Includes(item, detected)
           THEN synergies[i].bonus ELSE 0])

\* the penalties: some raw label text contains a term of the category
contextPenalty(allLabelTexts) ==
  sum([i \in 1..Len(contextPenalties) |->
         IF \E label \in allLabelTexts, term \in contextPenalties[i].terms :
              Includes(label, term)
           THEN contextPenalties[i].penalty ELSE 0])

\* the categories with a listed name among the detected names (itemNames.includes)
categoriesRepresented(itemNames) ==
  {i \in 1..Len(categories) : categories[i] \cap itemNames # {}}

\* mutant: the detected names that have a category are counted, not the categories
diversityBonus_perItem(itemNames) ==
  LET listed == {name \in itemNames : \E i \in 1..Len(categories) : name \in categories[i]}
  IN  IF Cardinality(listed) >= 3 THEN 6
      ELSE IF Cardinality(listed) = 2 THEN 3
      ELSE 0

\* categoriesRepresented.length >= 3: +6; === 2: +3
diversityBonus(itemNames) ==
  IF Cardinality(categoriesRepresented(itemNames)) >= 3 THEN 6
  ELSE IF Cardinality(categoriesRepresented(itemNames)) = 2 THEN 3
  ELSE 0

\* item.confidence > 0.85 && item.points >= 10, for at least two detected items
confidenceBonus(detectedItems) ==
  IF Cardinality({i \in 1..Len(detectedItems) :
                    detectedItems[i].confidence > 85 /\ detectedItems[i].points >= 10}) >= 2
    THEN 4 ELSE 0

\* calculateContextualAdjustments(detectedItems, allLabels).adjustment, for labels that
\* all have a description
calculateContextualAdjustments(detectedItems, allLabels) ==
  LET itemNames == {detectedItems[i].item : i \in 1..Len(detectedItems)}
      allLabelTexts == {toLowerCase(allLabels[i].description) : i \in 1..Len(allLabels)}
  IN  synergyBonus(itemNames) + contextPenalty(allLabelTexts)
        + diversityBonus(itemNames) + confidenceBonus(detectedItems)

\* the loop state of calculateRating: totalScore, detectedItems, usedKeywords
NoMatches == [totalScore |-> 0, detectedItems |-> <<>>, usedKeywords |-> {}]

\* mutant: every match is counted
addMatch_always(acc, keywordKey, item) ==
  [totalScore |-> acc.totalScore + item.points,
   detectedItems |-> Append(acc.detectedItems, item),
   usedKeywords |-> acc.usedKeywords \cup {keywordKey}]

\* a match is counted unless its key is in usedKeywords
addMatch(acc, keywordKey, item) ==
  IF keywordKey \in acc.usedKeywords THEN acc
  ELSE [totalScore |-> acc.totalScore + item.points,
        detectedItems |-> Append(acc.detectedItems, item),
        usedKeywords |-> acc.usedKeywords \cup {keywordKey}]

\* textMatches.forEach(...)
RECURSIVE addTextMatches(_, _)
addTextMatches(acc, textMatches) ==
  IF Len(textMatches) = 0 THEN acc
  ELSE addTextMatches(addMatch(acc, "text:" \o textMatches[1].item, textMatches[1]),
                      Tail(textMatches))

\* matches.forEach(...) for one label
RECURSIVE addLabelMatches(_, _, _, _)
addLabelMatches(acc, matches, labelText, label) ==
  IF Len(matches) = 0 THEN acc
  ELSE LET match == matches[1]
           confidence == IF "score" \in label.has THEN label.score ELSE 0
       IN  addLabelMatches(
             addMatch(acc, "label:" \o match.keyword \o ":" \o labelText,
                      Item(match.keyword, match.adjustedPoints, confidence,
                           match.matchType, label.description)),
             Tail(matches), labelText, label)

\* labels.forEach(...): a null label and a label without description are skipped
RECURSIVE addLabels(_, _, _)
addLabels(items, acc, labels) ==
  IF Len(labels) = 0 THEN acc
  ELSE LET label == labels[1]
           labelText == trim(toLowerCase(label.description))
           confidence == IF "score" \in label.has THEN label.score ELSE 0
       IN  IF label.null \/ "description" \notin label.has \/ label.description = ""
             THEN addLabels(items, acc, Tail(labels))
             ELSE addLabels(items,
                            addLabelMatches(acc, findMatches(items, labelText, confidence),
                                            labelText, label),
                            Tail(labels))

\* a call's outcome: it threw `error`, or returned score, detectedItems and
\* metadata.rawScore
\* this.scoreMessages: the message of each threshold
scoreMessages ==
  ObjectLiteral(<<
    Entry(0, "Refreshingly authentic - no performative signaling detected!"),
    Entry(5, "Barely registering on the aesthetic consciousness scale"),
    Entry(15, "Subtle hints of curated lifestyle choices"),
    Entry(25, "Some performative awareness emerging"),
    Entry(35, "Entering soft boy adjacent territory"),
    Entry(45, "Moderate indie aesthetic energy"),
    Entry(55, "Solidly in the 'that guy who reads' zone"),
    Entry(65, "Strong performative cultural signaling"),
    Entry(75, "Peak indie boy energy with literary pretensions"),
    Entry(85, "Maximum cultural capital flexing detected"),
    Entry(95, "Elite performative male status achieved"),
    Entry(100, "Transcendent level of curated masculinity - you've become the aesthetic!")
  >>)

\* Object.keys(obj).map(Number)
keys(obj) == [i \in 1..Len(obj) |-> obj[i].key]

\* numbers.sort((a, b) => b - a)
RECURSIVE sortDescending(_)
sortDescending(numbers) ==
  IF Len(numbers) = 0 THEN <<>>
  ELSE LET rest == sortDescending(Tail(numbers))
           before == SelectSeq(rest, LAMBDA n : n >= Head(numbers))
           after == SelectSeq(rest, LAMBDA n : n < Head(numbers))
       IN  before \o <<Head(numbers)>> \o after

\* for (const threshold of scoreRanges) if (score >= threshold) return the message;
\* after the loop: return this.scoreMessages[0]
RECURSIVE messageOf(_, _)
messageOf(scoreRanges, score) ==
  IF Len(scoreRanges) = 0 THEN Get(scoreMessages, 0)
  ELSE IF score >= Head(scoreRanges) THEN Get(scoreMessages, Head(scoreRanges))
  ELSE messageOf(Tail(scoreRanges), score)

\* mutant: the thresholds are tried in the order of the keys, lowest first
generateMessage_unsorted(score) == messageOf(keys(scoreMessages), score)

\* generateMessage(score)
generateMessage(score) == messageOf(sortDescending(keys(scoreMessages)), score)

Threw(error) ==
  [threw |-> TRUE, error |-> error, score |-> 0, message |-> "", detectedItems |-> <<>>,
   rawScore |-> 0, matches |-> <<>>]
\* the object calculateRating returns: message is generateMessage(finalScore)
Returned(score, detectedItems, rawScore) ==
  [threw |-> FALSE, error |-> "", score |-> score, message |-> generateMessage(score),
   detectedItems |-> detectedItems, rawScore |-> rawScore, matches |-> <<>>]

\* mutant: the total is returned as the score
capScore_none(totalScore) == totalScore

\* Math.min(totalScore, 100)
capScore(totalScore) == IF totalScore < 100 THEN totalScore ELSE 100

\* calculateRating(labels, {textAnnotations}) with this.performativeItems = items.
\* labels.map(l => l.description) throws a TypeError on a null element, and
\* label.description.toLowerCase() in calculateContextualAdjustments throws one on an
\* element without description.
calculateRating(items, isArray, labels, textAnnotations) ==
  IF ~isArray THEN Threw("Labels must be an array")
  ELSE IF \E i \in 1..Len(labels) : labels[i].null THEN Threw("TypeError")
  ELSE LET text == addTextMatches(NoMatches, processTextAnnotations(textAnnotations))
           acc == addLabels(items, text, labels)
       IN  IF \E i \in 1..Len(labels) : "description" \notin labels[i].has
             THEN Threw("TypeError")
             ELSE LET totalScore == acc.totalScore
                                      + calculateContextualAdjustments(acc.detectedItems, labels)
                      finalScore == capScore(totalScore)
                  IN  Returned(finalScore, acc.detectedItems, totalScore)

\* updatePerformativeItems(newItems): the entries are checked and written one by one,
\* and the first weight outside [0, 100] throws
RECURSIVE updatePerformativeItems(_, _)
updatePerformativeItems(items, newItems) ==
  IF Len(newItems) = 0 THEN [items |-> items, threw |-> FALSE]
  ELSE IF newItems[1].value < 0 \/ newItems[1].value > 100
    THEN [items |-> items, threw |-> TRUE]
  ELSE updatePerformativeItems(
         Put(items, toLowerCase(newItems[1].key), newItems[1].value), Tail(newItems))

\* ------------------------------------------------------------ errors
\* an Error object: message, code, and originalError's message ("" if none)
Err(m, c, o) == [message |-> m, code |-> c, originalError |-> o]
NoError == Err("", "", "")

\* the failures of the provider capability (client.annotateImage rejects)
ProviderErrors ==
  { Err("UNAUTHENTICATED: Invalid credentials", "UNAUTHENTICATED", ""),
    Err("PERMISSION_DENIED: Access denied", "PERMISSION_DENIED", ""),
    Err("INVALID_ARGUMENT: Bad image data", "INVALID_ARGUMENT", ""),
    Err("QUOTA_EXCEEDED: API quota exceeded", "QUOTA_EXCEEDED", ""),
    Err("Service error", "", "") }

\* the rejection of createTimeoutPromise
TimeoutError == Err("Vision API request timeout", "", "")

\* the responses of the provider capability (client.annotateImage fulfils)
Undefined == <<"undefined">>
ProviderResults ==
  { [labelAnnotations |-> Undefined, textAnnotations |-> Undefined],
    [labelAnnotations |-> <<"matcha", "tote bag">>, textAnnotations |-> <<"text">>] }

nonRetryableCodes ==
  {"UNAUTHENTICATED", "PERMISSION_DENIED", "INVALID_ARGUMENT", "QUOTA_EXCEEDED"}

isNonRetryableError(error) ==
  \E code \in nonRetryableCodes : Includes(error.message, code) \/ error.code = code

transformError(error) ==
  IF Includes(error.message, "timeout")
    THEN Err("Vision API request timed out", "VISION_TIMEOUT", "")
  ELSE IF Includes(error.message, "UNAUTHENTICATED")
    THEN Err("Vision API authentication failed", "VISION_AUTH_ERROR", "")
  ELSE IF Includes(error.message, "QUOTA_EXCEEDED")
    THEN Err("Vision API quota exceeded", "VISION_QUOTA_ERROR", "")
  ELSE IF Includes(error.message, "PERMISSION_DENIED")
    THEN Err("Vision API permission denied", "VISION_PERMISSION_ERROR", "")
  ELSE Err("Vision API service error", "VISION_SERVICE_ERROR", error.message)

CircuitOpenError ==
  Err("Vision service circuit breaker is OPEN - service temporarily unavailable",
      "VISION_CIRCUIT_OPEN", "")
InvalidBufferError == Err("Invalid image buffer provided", "", "")

\* ------------------------------------------------------------ circuit breaker
\* `now - this.circuitBreaker.lastFailureTime` with null coerced to 0
ToNumber(v) == IF v = Null THEN 0 ELSE v

\* mutant: the OPEN breaker lets the next call probe without waiting for resetTimeout
checkCircuitBreaker_ignoresTime(cb, t) ==
  IF cb.state = "OPEN"
    THEN [cb EXCEPT !.state = "HALF_OPEN", !.successCount = 0]
    ELSE cb

\* mutant: the reset needs strictly more than resetTimeout
checkCircuitBreaker_strict(cb, t) ==
  IF cb.state = "OPEN" /\ t - ToNumber(cb.lastFailureTime) > resetTimeout
    THEN [cb EXCEPT !.state = "HALF_OPEN", !.successCount = 0]
    ELSE cb

\* mutant: a check before the reset is due restarts the wait
checkCircuitBreaker_postpones(cb, t) ==
  IF cb.state = "OPEN"
    THEN IF t - ToNumber(cb.lastFailureTime) >= resetTimeout
           THEN [cb EXCEPT !.state = "HALF_OPEN", !.successCount = 0]
           ELSE [cb EXCEPT !.lastFailureTime = t]
    ELSE cb

checkCircuitBreaker(cb, t) ==
  IF cb.state = "OPEN" /\ t - ToNumber(cb.lastFailureTime) >= resetTimeout
    THEN [cb EXCEPT !.state = "HALF_OPEN", !.successCount = 0]
    ELSE cb

\* mutant: closing the breaker keeps the old failureCount
recordSuccess_keepsFailures(cb) ==
  IF cb.state = "HALF_OPEN"
    THEN IF cb.successCount + 1 >= halfOpenSuccessThreshold
           THEN [cb EXCEPT !.state = "CLOSED", !.successCount = 0]
           ELSE [cb EXCEPT !.successCount = cb.successCount + 1]
  ELSE IF cb.state = "CLOSED"
    THEN [cb EXCEPT !.failureCount = 0]
  ELSE cb

\* mutant: a success of a half-open probe is not counted
recordSuccess_ignoresProbe(cb) ==
  IF cb.state = "CLOSED" THEN [cb EXCEPT !.failureCount = 0] ELSE cb

recordSuccess(cb) ==
  IF cb.state = "HALF_OPEN"
    THEN IF cb.successCount + 1 >= halfOpenSuccessThreshold
           THEN [cb EXCEPT !.state = "CLOSED", !.failureCount = 0, !.successCount = 0]
           ELSE [cb EXCEPT !.successCount = cb.successCount + 1]
  ELSE IF cb.state = "CLOSED"
    THEN [cb EXCEPT !.failureCount = 0]
  ELSE cb

\* mutant: the breaker opens one failure late
recordFailure_offByOne(cb, t) ==
  LET cb1 == [cb EXCEPT !.failureCount = cb.failureCount + 1, !.lastFailureTime = t]
  IN  IF cb1.state = "HALF_OPEN"
        THEN [cb1 EXCEPT !.state = "OPEN", !.successCount = 0]
      ELSE IF cb1.state = "CLOSED" /\ cb1.failureCount > failureThreshold
        THEN [cb1 EXCEPT !.state = "OPEN"]
      ELSE cb1

\* mutant: a failed probe reopens the breaker but keeps the successes counted
recordFailure_keepsSuccesses(cb, t) ==
  LET cb1 == [cb EXCEPT !.failureCount = cb.failureCount + 1, !.lastFailureTime = t]
  IN  IF cb1.state = "HALF_OPEN"
        THEN [cb1 EXCEPT !.state = "OPEN"]
      ELSE IF cb1.state = "CLOSED" /\ cb1.failureCount >= failureThreshold
        THEN [cb1 EXCEPT !.state = "OPEN"]
      ELSE cb1

recordFailure(cb, t) ==
  LET cb1 == [cb EXCEPT !.failureCount = cb.failureCount + 1, !.lastFailureTime = t]
  IN  IF cb1.state = "HALF_OPEN"
        THEN [cb1 EXCEPT !.state = "OPEN", !.successCount = 0]
      ELSE IF cb1.state = "CLOSED" /\ cb1.failureCount >= failureThreshold
        THEN [cb1 EXCEPT !.state = "OPEN"]
      ELSE cb1

\* ------------------------------------------------------------ retry loop
\* mutant: the same delay before every retry
backoffDelay_constant(attempt) == retryDelay

\* const delay = this.retryDelay * Math.pow(2, attempt - 1)
backoffDelay(attempt) == retryDelay * Pow2(attempt - 1)

\* the value the fn of analyzeImage returns for a provider result
toAnalysis(result) ==
  [labels |-> IF result.labelAnnotations = Undefined THEN <<>> ELSE result.labelAnnotations,
   textAnnotations |-> IF result.textAnnotations = Undefined THEN <<>> ELSE result.textAnnotations]

\* mutant: every failed attempt is reported to the breaker
onAttemptFailure_records(cb, t) == recordFailure(cb, t)

\* executeWithRetry's catch block leaves the breaker alone
onAttemptFailure(cb, t) == cb

\* analyzeImage's try branch after executeWithRetry returned
onSuccess(cb) == recordSuccess(cb)
\* analyzeImage's catch branch after executeWithRetry threw
onFailure(cb, t) == recordFailure(cb, t)

\* ------------------------------------------------------------ state
VARIABLES
  circuitBreaker,  \* this.circuitBreaker: state, failureCount, lastFailureTime, successCount
  client,          \* this.client is set (TRUE) or null (FALSE)
  now,             \* Date.now()
  pc,              \* per call: "idle", "awaiting" (Promise.race pending), "sleeping"
  attempt,         \* per call: executeWithRetry's loop variable
  timer,           \* per call: start of the pending attempt, or end of the pending sleep
  lastError,       \* per call: executeWithRetry's lastError
  admittedIn,      \* per call: the state checkCircuitBreaker returned at entry
  rawError,        \* per call: the error the last failed attempt got from the race (history)
  delays,          \* per call: the delays slept so far (history)
  timeouts,        \* per call: how many attempts lost the race to the timeout (history)
  providerCalls,   \* number of client.annotateImage invocations (history)
  started,         \* number of analyzeImage invocations (history)
  failStreak,      \* number of failures reported since the last reported success (history)
  last,            \* the breaker operation done last, and the breaker fields before it
  lastOutcome,     \* how the call that settled last ended
  performativeItems, \* RatingService: this.performativeItems
  request,         \* the RatingService call in progress, with its arguments
  response         \* what that call returned or threw

vars == <<circuitBreaker, client, now, pc, attempt, timer, lastError, admittedIn,
          rawError, delays, timeouts, providerCalls, started, failStreak, last, lastOutcome>>

callVars == <<pc, attempt, timer, lastError, admittedIn, rawError, delays, timeouts>>

ratingVars == <<performativeItems, request, response>>

NoRequest ==
  [op |-> "none", isArray |-> TRUE, labels |-> <<>>, textAnnotations |-> <<>>,
   newItems |-> <<>>, items |-> <<>>]
NoResponse ==
  [threw |-> FALSE, error |-> "none", score |-> 0, message |-> "", detectedItems |-> <<>>,
   rawScore |-> 0, matches |-> <<>>]

NoResult == [labels |-> Undefined, textAnnotations |-> Undefined]
NoOutcome ==
  [call |-> "", settled |-> "none", value |-> NoResult, error |-> NoError,
   attempts |-> 0, timeouts |-> 0, rawError |-> NoError, delays |-> <<>>,
   admittedIn |-> ""]

Op(op, cb) ==
  [op |-> op, state |-> cb.state, failureCount |-> cb.failureCount,
   successCount |-> cb.successCount]

\* the state after construction, with room for the calls of `calls`
Constructed(calls) ==
  /\ circuitBreaker = [state |-> "CLOSED", failureCount |-> 0,
                       lastFailureTime |-> Null, successCount |-> 0]
  /\ client = TRUE
  /\ now = 0
  /\ pc = [c \in calls |-> "idle"]
  /\ attempt = [c \in calls |-> 0]
  /\ timer = [c \in calls |-> 0]
  /\ lastError = [c \in calls |-> NoError]
  /\ admittedIn = [c \in calls |-> ""]
  /\ rawError = [c \in calls |-> NoError]
  /\ delays = [c \in calls |-> <<>>]
  /\ timeouts = [c \in calls |-> 0]
  /\ providerCalls = 0
  /\ started = 0
  /\ failStreak = 0
  /\ last = Op("none", circuitBreaker)
  /\ lastOutcome = NoOutcome
  /\ performativeItems = ObjectLiteral(performativeItemsLiteral)
  /\ request = NoRequest
  /\ response = NoResponse

Init == Constructed(Calls)

\* the call's frame is dropped when its promise settles
Settle(c) ==
  /\ pc' = [pc EXCEPT ![c] = "idle"]
  /\ attempt' = [attempt EXCEPT ![c] = 0]
  /\ timer' = [timer EXCEPT ![c] = 0]
  /\ lastError' = [lastError EXCEPT ![c] = NoError]
  /\ admittedIn' = [admittedIn EXCEPT ![c] = ""]
  /\ rawError' = [rawError EXCEPT ![c] = NoError]
  /\ delays' = [delays EXCEPT ![c] = <<>>]
  /\ timeouts' = [timeouts EXCEPT ![c] = 0]

\* a history counter advances, unless the behaviour is not counted (LiveSpec)
Count(n, counted) == IF counted THEN n + 1 ELSE n

\* a provider attempt starts: fn() calls client.annotateImage and the timeout race
StartAttempt(c, n, counted) ==
  /\ pc' = [pc EXCEPT ![c] = "awaiting"]
  /\ attempt' = [attempt EXCEPT ![c] = n]
  /\ timer' = [timer EXCEPT ![c] = now]
  /\ providerCalls' = Count(providerCalls, counted)

\* analyzeImage(imageBuffer), from entry to its first await (or its synchronous throw)
Enter(c, isBuffer, counted) ==
  /\ pc[c] = "idle"
  /\ started' = Count(started, counted)
  /\ circuitBreaker' = checkCircuitBreaker(circuitBreaker, now)
  /\ last' = Op("check", circuitBreaker)
  /\ UNCHANGED <<client, now, ratingVars>>
  /\ IF circuitBreaker'.state = "OPEN" \/ ~client \/ ~isBuffer
       THEN /\ lastOutcome' =
                 [NoOutcome EXCEPT
                    !.call = c, !.settled = "rejected",
                    !.admittedIn = circuitBreaker'.state,
                    !.error = IF circuitBreaker'.state = "OPEN" THEN CircuitOpenError
                              ELSE IF ~client THEN Err("Vision client not initialized", "", "")
                              ELSE InvalidBufferError]
            /\ UNCHANGED <<callVars, providerCalls, failStreak>>
       ELSE /\ StartAttempt(c, 1, counted)
            /\ admittedIn' = [admittedIn EXCEPT ![c] = circuitBreaker'.state]
            /\ lastOutcome' = NoOutcome
            /\ UNCHANGED <<lastError, rawError, delays, timeouts, failStreak>>

\* one of at most MaxCalls analyzeImage calls
AnalyzeImage(c, isBuffer) ==
  /\ started < MaxCalls
  /\ Enter(c, isBuffer, TRUE)

\* executeWithRetry returned: recordSuccess, and the call fulfils with the result
Fulfil(c, value) ==
  /\ circuitBreaker' = onSuccess(circuitBreaker)
  /\ last' = Op("success", circuitBreaker)
  /\ lastOutcome' =
       [NoOutcome EXCEPT
          !.call = c, !.settled = "fulfilled", !.value = value,
          !.attempts = attempt[c], !.delays = delays[c], !.admittedIn = admittedIn[c]]
  /\ failStreak' = 0
  /\ Settle(c)

\* executeWithRetry threw: recordFailure, and the call rejects with the error
Reject(c, error, raw, nTimeouts) ==
  /\ circuitBreaker' = onFailure(circuitBreaker, now)
  /\ last' = Op("failure", circuitBreaker)
  /\ lastOutcome' =
       [call |-> c, settled |-> "rejected", value |-> NoResult, error |-> error,
        attempts |-> attempt[c], timeouts |-> nTimeouts, rawError |-> raw,
        delays |-> delays[c], admittedIn |-> admittedIn[c]]
  /\ failStreak' = failStreak + 1
  /\ Settle(c)

\* an attempt's race rejected with `raw`: fn's catch, then executeWithRetry's catch
AttemptFailed(c, raw, nTimeouts) ==
  LET error == transformError(raw)
  IN  IF isNonRetryableError(error)
        THEN Reject(c, error, raw, nTimeouts)
      ELSE IF attempt[c] < maxRetries
        THEN /\ pc' = [pc EXCEPT ![c] = "sleeping"]
             /\ timer' = [timer EXCEPT ![c] = now + backoffDelay(attempt[c])]
             /\ delays' = [delays EXCEPT ![c] = Append(delays[c], backoffDelay(attempt[c]))]
             /\ lastError' = [lastError EXCEPT ![c] = error]
             /\ rawError' = [rawError EXCEPT ![c] = raw]
             /\ timeouts' = [timeouts EXCEPT ![c] = nTimeouts]
             /\ circuitBreaker' = onAttemptFailure(circuitBreaker, now)
             /\ UNCHANGED <<attempt, admittedIn, failStreak, last, lastOutcome>>
      ELSE Reject(c, transformError(error), raw, nTimeouts)

\* client.annotateImage fulfils before the timeout
ProviderResolves(c, result) ==
  /\ pc[c] = "awaiting"
  /\ now - timer[c] < timeout
  /\ Fulfil(c, toAnalysis(result))
  /\ UNCHANGED <<client, now, providerCalls, started, ratingVars>>

\* client.annotateImage rejects before the timeout
ProviderRejects(c, raw) ==
  /\ pc[c] = "awaiting"
  /\ now - timer[c] < timeout
  /\ AttemptFailed(c, raw, timeouts[c])
  /\ UNCHANGED <<client, now, providerCalls, started, ratingVars>>

\* createTimeoutPromise rejects first
TimeoutFires(c) ==
  /\ pc[c] = "awaiting"
  /\ now - timer[c] >= timeout
  /\ AttemptFailed(c, TimeoutError, timeouts[c] + 1)
  /\ UNCHANGED <<client, now, providerCalls, started, ratingVars>>

\* await this.sleep(delay) ends: the loop's next iteration calls fn() again
Resume(c, counted) ==
  /\ pc[c] = "sleeping"
  /\ now >= timer[c]
  /\ StartAttempt(c, attempt[c] + 1, counted)
  /\ UNCHANGED <<circuitBreaker, client, now, lastError, admittedIn, rawError, delays,
                 timeouts, started, failStreak, last, lastOutcome, ratingVars>>

SleepEnds(c) == Resume(c, TRUE)

\* the instants at which a pending timer or the breaker's reset falls due, and the
\* instant one retryDelay before the reset
Deadlines ==
  {timer[c] : c \in {x \in DOMAIN pc : pc[x] = "sleeping"}}
    \cup {timer[c] + timeout : c \in {x \in DOMAIN pc : pc[x] = "awaiting"}}
    \cup (IF circuitBreaker.state = "OPEN"
            THEN {ToNumber(circuitBreaker.lastFailureTime) + resetTimeout - retryDelay,
                  ToNumber(circuitBreaker.lastFailureTime) + resetTimeout}
            ELSE {})

\* Date.now() advances to t
Tick(t) ==
  /\ now < t
  /\ t <= MaxTime
  /\ now' = t
  /\ UNCHANGED <<circuitBreaker, client, callVars, providerCalls, started, failStreak,
                 last, lastOutcome, ratingVars>>

\* visionService.client = null, before the first call
ClearClient ==
  /\ started = 0
  /\ client
  /\ client' = FALSE
  /\ UNCHANGED <<circuitBreaker, now, callVars, providerCalls, started, failStreak,
                 last, lastOutcome, ratingVars>>

Next ==
  \/ \E c \in Calls, isBuffer \in BOOLEAN : AnalyzeImage(c, isBuffer)
  \/ \E c \in Calls, result \in ProviderResults : ProviderResolves(c, result)
  \/ \E c \in Calls, raw \in ProviderErrors : ProviderRejects(c, raw)
  \/ \E c \in Calls : TimeoutFires(c)
  \/ \E c \in Calls : SleepEnds(c)
  \/ \E t \in Deadlines : Tick(t)
  \/ ClearClient

Spec == Init /\ [][Next]_vars

\* ------------------------------------------------------------ recovery
\* The client of the recovery property: calls keep being made (they are not counted),
\* timers fire, time advances, and from the instant FailUntil on every provider call
\* succeeds: no rejection, and the provider answers before the attempt's timeout.
\* A reset that starts by FailUntil elapses by MaxTime.
FailUntil == MaxTime - resetTimeout

LiveAnalyzeImage(c, isBuffer) == Enter(c, isBuffer, FALSE)

LiveProviderRejects(c, raw) ==
  /\ now <= FailUntil
  /\ ProviderRejects(c, raw)

LiveTimeoutFires(c) ==
  /\ now <= FailUntil
  /\ TimeoutFires(c)

LiveSleepEnds(c) == Resume(c, FALSE)

LiveTick(t) ==
  /\ t > FailUntil => \A c \in DOMAIN pc : pc[c] = "awaiting" => t - timer[c] < timeout
  /\ Tick(t)

LiveNext ==
  \/ \E c \in Calls, isBuffer \in BOOLEAN : LiveAnalyzeImage(c, isBuffer)
  \/ \E c \in Calls, result \in ProviderResults : ProviderResolves(c, result)
  \/ \E c \in Calls, raw \in ProviderErrors : LiveProviderRejects(c, raw)
  \/ \E c \in Calls : LiveTimeoutFires(c)
  \/ \E c \in Calls : LiveSleepEnds(c)
  \/ \E t \in Deadlines : LiveTick(t)

\* calls with a valid buffer keep being made, the event loop runs due timers and
\* settled promises, and the clock advances
LiveSpec ==
  /\ Init
  /\ [][LiveNext]_vars
  /\ WF_vars(\E c \in Calls : LiveAnalyzeImage(c, TRUE))
  /\ WF_vars(\E c \in Calls, result \in ProviderResults : ProviderResolves(c, result))
  /\ WF_vars(\E c \in Calls : LiveTimeoutFires(c))
  /\ WF_vars(\E c \in Calls : LiveSleepEnds(c))
  /\ WF_vars(\E t \in Deadlines : LiveTick(t))

\* ------------------------------------------------------------ concurrent calls
\* Two analyzeImage calls share one VisionService: between two awaits a call runs
\* alone, and the other call's steps come in any order in between. The behaviours
\* are those of one slow call, made first, that overlaps a series of fast calls:
\* the provider answers a fast call's attempts at once, and with a result only on
\* the first attempt; timers run on time.
SharedCalls == {"c1", "c2"}

\* what the provider answers in the concurrent behaviours
SharedErrors == {Err("Service error", "", "")}
SharedResults == {[labelAnnotations |-> <<"matcha", "tote bag">>, textAnnotations |-> <<"text">>]}

\* most analyzeImage calls of a concurrent behaviour
MaxSharedCalls == 7

SharedAnalyzeImage(c, isBuffer) ==
  /\ started < MaxSharedCalls
  /\ Enter(c, isBuffer, TRUE)

SharedInit == Constructed(SharedCalls)

\* the provider answers the calls of Fast at once; the calls of Slow may wait for
\* their answer or for the timeout
Slow == "c1"
Fast == "c2"

FastProviderResolves(result) ==
  /\ now = timer[Fast]
  /\ attempt[Fast] = 1
  /\ ProviderResolves(Fast, result)

FastProviderRejects(raw) ==
  /\ now = timer[Fast]
  /\ ProviderRejects(Fast, raw)

\* the clock advances to the next instant at which something is due, or to an
\* earlier one: timers run on time
SharedTick(t) ==
  /\ pc[Fast] # "awaiting"
  /\ \A c \in SharedCalls :
       /\ pc[c] = "sleeping" => t <= timer[c]
       /\ pc[c] = "awaiting" => t <= timer[c] + timeout
  /\ Tick(t)

SharedNext ==
  \/ started = 0 /\ SharedAnalyzeImage(Slow, TRUE)
  \/ SharedAnalyzeImage(Fast, TRUE)
  \/ \E result \in SharedResults : ProviderResolves(Slow, result)
  \/ \E raw \in SharedErrors : ProviderRejects(Slow, raw)
  \/ \E result \in SharedResults : FastProviderResolves(result)
  \/ \E raw \in SharedErrors : FastProviderRejects(raw)
  \/ TimeoutFires(Slow)
  \/ \E c \in SharedCalls : SleepEnds(c)
  \/ \E t \in Deadlines : SharedTick(t)

SharedSpec == SharedInit /\ [][SharedNext]_vars

\* ------------------------------------------------------------ rating service: calls
\* longest labels array of a calculateRating call
MaxLabels == 3

\* the elements the labels arrays are made of
LabelPool ==
  { Label("matcha", 100), Label("tote bag", 100), Label("book", 82),
    Label("xbox", 90), Label("musician", 90),
    NullLabel, NoDescription(95), NoScore("Matcha ") }

RECURSIVE Arrays(_, _)
Arrays(pool, n) ==
  IF n = 0 THEN {<<>>}
  ELSE Arrays(pool, n - 1)
         \cup {Append(a, x) : a \in {b \in Arrays(pool, n - 1) : Len(b) = n - 1}, x \in pool}

LabelArrays == Arrays(LabelPool, MaxLabels)

\* options.textAnnotations (the descriptions); <<>> also stands for no option
TextInputs ==
  { <<>>, <<"The New Yorker", "A24 Criterion", "a24">> }

\* the arguments of updatePerformativeItems, as Object.entries(newItems)
NewItems ==
  { <<Entry("Indie Artist", 12), Entry("matcha", 100)>>,
    <<Entry("Indie Artist", 12), Entry("matcha", 100), Entry("book", 101)>>,
    <<Entry("matcha", 0 - 1)>> }

\* ratingService.calculateRating(labels, {textAnnotations})
CalculateRating(isArray, labels, textAnnotations) ==
  /\ request.op = "none"
  /\ request' = [NoRequest EXCEPT !.op = "calculateRating", !.isArray = isArray,
                                  !.labels = labels, !.textAnnotations = textAnnotations,
                                  !.items = performativeItems]
  /\ response' = calculateRating(performativeItems, isArray, labels, textAnnotations)
  /\ UNCHANGED <<performativeItems, vars>>

\* ratingService.updatePerformativeItems(newItems)
UpdatePerformativeItems(newItems) ==
  /\ request.op = "none"
  /\ request' = [NoRequest EXCEPT !.op = "updatePerformativeItems", !.newItems = newItems,
                                  !.items = performativeItems]
  /\ LET update == updatePerformativeItems(performativeItems, newItems)
     IN  /\ performativeItems' = update.items
         /\ response' = [NoResponse EXCEPT
                           !.threw = update.threw,
                           !.error = IF update.threw THEN "Invalid score" ELSE ""]
  /\ UNCHANGED vars

\* the caller has the outcome; the service is ready for its next call
Return ==
  /\ request.op # "none"
  /\ request' = NoRequest
  /\ response' = NoResponse
  /\ UNCHANGED <<performativeItems, vars>>

RatingNext ==
  \/ \E labels \in LabelArrays, textAnnotations \in TextInputs :
       CalculateRating(TRUE, labels, textAnnotations)
  \/ CalculateRating(FALSE, <<>>, <<>>)
  \/ \E newItems \in NewItems : UpdatePerformativeItems(newItems)
  \/ Return

RatingSpec == Init /\ [][RatingNext]_<<vars, ratingVars>>

\* ------------------------------------------------------------ rating service: matching calls
\* the label texts findMatches is called with: dictionary keys, a key of semanticMap
\* without weight ('musician'), a text close to four keys, and a text close to none
MatchLabels == {"matcha", "book", "musician", "skating", "xbox"}

\* the confidences findMatches is called with, in hundredths
Confidences == {0, 50, 82, 90, 95, 100}

\* longest textAnnotations array of a processTextAnnotations call
MaxSpans == 2

\* the descriptions the text spans are made of; "" is a span without description
Spans == {"The New Yorker", "A24 Criterion", "a24", "New", "Yorker", "Merger", ""}

SpanArrays == Arrays(Spans, MaxSpans) \cup TextInputs

\* ratingService.findMatches(labelText, confidence)
FindMatches(labelText, confidence) ==
  /\ request.op = "none"
  /\ request' = [NoRequest EXCEPT !.op = "findMatches",
                                  !.labels = <<Label(labelText, confidence)>>,
                                  !.items = performativeItems]
  /\ response' = [NoResponse EXCEPT
                    !.error = "",
                    !.matches = findMatches(performativeItems, labelText, confidence)]
  /\ UNCHANGED <<performativeItems, vars>>

\* ratingService.processTextAnnotations(textAnnotations)
ProcessTextAnnotations(textAnnotations) ==
  /\ request.op = "none"
  /\ request' = [NoRequest EXCEPT !.op = "processTextAnnotations",
                                  !.textAnnotations = textAnnotations,
                                  !.items = performativeItems]
  /\ response' = [NoResponse EXCEPT
                    !.error = "",
                    !.detectedItems = processTextAnnotations(textAnnotations)]
  /\ UNCHANGED <<performativeItems, vars>>

MatchNext ==
  \/ \E labelText \in MatchLabels, confidence \in Confidences :
       FindMatches(labelText, confidence)
  \/ \E textAnnotations \in SpanArrays : ProcessTextAnnotations(textAnnotations)
  \/ \E newItems \in NewItems : UpdatePerformativeItems(newItems)
  \/ Return

MatchSpec == Init /\ [][MatchNext]_<<vars, ratingVars>>

\* ------------------------------------------------------------ step predicates
\* this step is a call's entry into analyzeImage
Enters == started' = started + 1
\* this step ends a call in analyzeImage's catch branch (recordFailure)
ReportsFailure ==
  \E c \in DOMAIN pc : pc[c] = "awaiting" /\ pc'[c] = "idle" /\ lastOutcome'.settled = "rejected"
\* this step ends a call in analyzeImage's try branch (recordSuccess)
ReportsSuccess ==
  \E c \in DOMAIN pc : pc[c] = "awaiting" /\ pc'[c] = "idle" /\ lastOutcome'.settled = "fulfilled"
\* no call is in flight
Idle == \A c \in DOMAIN pc : pc[c] = "idle"
\* time since the failure recorded last
Elapsed == now - ToNumber(circuitBreaker.lastFailureTime)

\* ------------------------------------------------------------ claims
\* C1: while the breaker is CLOSED, a reported failure increments failureCount and a
\* reported success resets it to 0; the breaker leaves CLOSED only by a reported
\* failure, and it does so exactly when that failure is the failureThreshold-th one
\* since the last reported success; lastFailureTime is then the time of that report.
C1_ClosedCounting ==
  [][circuitBreaker.state = "CLOSED" =>
       /\ ReportsFailure =>
            /\ circuitBreaker'.failureCount = circuitBreaker.failureCount + 1
            /\ circuitBreaker'.failureCount = failStreak'
            /\ circuitBreaker'.state = "OPEN" <=> failStreak' = failureThreshold
            /\ circuitBreaker'.state \in {"OPEN", "CLOSED"}
            /\ circuitBreaker'.state = "OPEN" => circuitBreaker'.lastFailureTime = now
       /\ ReportsSuccess =>
            /\ circuitBreaker'.failureCount = 0
            /\ circuitBreaker'.state = "CLOSED"
       /\ ~ReportsFailure => circuitBreaker'.state = "CLOSED"]_vars

\* C1 witness: the fifth failure in a row has just opened the CLOSED breaker
C1_Witness ==
  /\ last.op = "failure" /\ last.state = "CLOSED"
  /\ last.failureCount = failureThreshold - 1
  /\ failStreak = failureThreshold
  /\ circuitBreaker.state = "OPEN"
  /\ circuitBreaker.lastFailureTime = now

\* C2: once failureThreshold failures have been reported in a row the breaker is OPEN;
\* and when the first failureThreshold calls of a client all failed at the provider,
\* the next call, made before resetTimeout has elapsed, is rejected with
\* VISION_CIRCUIT_OPEN without a provider attempt: the provider has been called
\* failureThreshold * maxRetries times, the attempts of the failed calls.
C2_SixthCallRejected ==
  /\ (Idle /\ last.op = "failure" /\ failStreak >= failureThreshold)
        => circuitBreaker.state = "OPEN"
  /\ (/\ Idle /\ last.op = "check"
      /\ started = failureThreshold + 1 /\ failStreak = failureThreshold
      /\ Elapsed < resetTimeout)
        => /\ circuitBreaker.state = "OPEN"
           /\ lastOutcome.settled = "rejected"
           /\ lastOutcome.error.code = "VISION_CIRCUIT_OPEN"
           /\ lastOutcome.attempts = 0
           /\ providerCalls = failureThreshold * maxRetries

\* C2 witness: five failed calls, then the sixth rejected by the open breaker
C2_Witness ==
  /\ Idle /\ last.op = "check"
  /\ started = failureThreshold + 1 /\ failStreak = failureThreshold
  /\ Elapsed < resetTimeout
  /\ lastOutcome.error = CircuitOpenError
  /\ providerCalls = failureThreshold * maxRetries

\* C3: a call entering while the breaker is OPEN moves it to HALF_OPEN and goes to the
\* provider when resetTimeout has elapsed since lastFailureTime (unless its argument
\* is rejected), and otherwise leaves it OPEN and is rejected with VISION_CIRCUIT_OPEN
\* without a provider attempt.
C3_OpenToHalfOpen ==
  [][(Enters /\ circuitBreaker.state = "OPEN") =>
       IF Elapsed >= resetTimeout
         THEN /\ circuitBreaker'.state = "HALF_OPEN"
              /\ circuitBreaker'.successCount = 0
              /\ \/ /\ lastOutcome'.settled = "rejected"
                    /\ lastOutcome'.error = InvalidBufferError
                    /\ providerCalls' = providerCalls
                 \/ /\ \E c \in DOMAIN pc :
                         /\ pc[c] = "idle" /\ pc'[c] = "awaiting"
                         /\ attempt'[c] = 1 /\ admittedIn'[c] = "HALF_OPEN"
                    /\ providerCalls' = providerCalls + 1
         ELSE /\ circuitBreaker' = circuitBreaker
              /\ lastOutcome'.settled = "rejected"
              /\ lastOutcome'.error = CircuitOpenError
              /\ providerCalls' = providerCalls
              /\ pc' = pc]_vars

\* C3 witness: the call that found the reset due is at the provider, the breaker HALF_OPEN
C3_Witness ==
  /\ last.op = "check" /\ last.state = "OPEN"
  /\ circuitBreaker.state = "HALF_OPEN"
  /\ Elapsed = resetTimeout
  /\ \E c \in DOMAIN pc : pc[c] = "awaiting" /\ admittedIn[c] = "HALF_OPEN"

\* C4: in HALF_OPEN a reported success increments successCount, and the one that
\* brings it to halfOpenSuccessThreshold closes the breaker with failureCount and
\* successCount both 0.
C4_HalfOpenSuccess ==
  [][(ReportsSuccess /\ circuitBreaker.state = "HALF_OPEN") =>
       IF circuitBreaker.successCount + 1 >= halfOpenSuccessThreshold
         THEN /\ circuitBreaker'.state = "CLOSED"
              /\ circuitBreaker'.failureCount = 0
              /\ circuitBreaker'.successCount = 0
         ELSE /\ circuitBreaker'.state = "HALF_OPEN"
              /\ circuitBreaker'.successCount = circuitBreaker.successCount + 1
              /\ circuitBreaker'.failureCount = circuitBreaker.failureCount]_vars

\* C4 witness: the second success in HALF_OPEN has just closed the breaker
C4_Witness ==
  /\ last.op = "success" /\ last.state = "HALF_OPEN"
  /\ last.successCount = halfOpenSuccessThreshold - 1
  /\ last.failureCount >= failureThreshold
  /\ circuitBreaker.state = "CLOSED"
  /\ circuitBreaker.failureCount = 0

\* C5: in HALF_OPEN one reported failure moves the breaker to OPEN, whatever
\* successCount was, sets successCount to 0 and sets lastFailureTime to the time of
\* the report, later than the one it replaces.
C5_HalfOpenFailure ==
  [][(ReportsFailure /\ circuitBreaker.state = "HALF_OPEN") =>
       /\ circuitBreaker'.state = "OPEN"
       /\ circuitBreaker'.successCount = 0
       /\ circuitBreaker'.lastFailureTime = now
       /\ circuitBreaker'.lastFailureTime > circuitBreaker.lastFailureTime]_vars

\* C5 witness: a probe failed after one success had been counted in HALF_OPEN
C5_Witness ==
  /\ last.op = "failure" /\ last.state = "HALF_OPEN"
  /\ last.successCount = halfOpenSuccessThreshold - 1
  /\ circuitBreaker.state = "OPEN"
  /\ circuitBreaker.successCount = 0

\* C6: a call whose provider attempt failed with a non-retryable error class makes no
\* further attempt and sleeps no back-off delay: it ends after exactly one attempt.
C6_NonRetryableOneAttempt ==
  /\ \A c \in DOMAIN pc :
       pc[c] # "idle" => ~isNonRetryableError(rawError[c])
  /\ (lastOutcome.settled = "rejected" /\ isNonRetryableError(lastOutcome.rawError))
       => (lastOutcome.attempts = 1 /\ lastOutcome.delays = <<>>)

\* the delays executeWithRetry sleeps before attempts 2 .. n+1
BackoffSchedule(n) == [k \in 1..n |-> retryDelay * Pow2(k - 1)]
StrictlyIncreasing(seq) == \A i \in 1..(Len(seq) - 1) : seq[i] < seq[i + 1]

\* C7: a call makes at most maxRetries provider attempts; a fulfilled attempt ends the
\* call at once, without a further provider call, with the value made from that
\* result; the delay slept after failed attempt k is retryDelay * 2^(k-1), so the
\* delays increase strictly, and no delay follows the last attempt of a call.
C7_RetrySchedule ==
  [][/\ \A c \in DOMAIN pc :
          /\ attempt[c] <= maxRetries
          /\ pc[c] = "awaiting" => delays[c] = BackoffSchedule(attempt[c] - 1)
          /\ pc[c] = "sleeping" =>
               /\ attempt[c] < maxRetries
               /\ delays[c] = BackoffSchedule(attempt[c])
               /\ timer[c] >= delays[c][attempt[c]]
          /\ StrictlyIncreasing(delays[c])
     /\ lastOutcome.attempts <= maxRetries
     /\ lastOutcome.attempts > 0 =>
          /\ lastOutcome.delays = BackoffSchedule(lastOutcome.attempts - 1)
          /\ StrictlyIncreasing(lastOutcome.delays)
     /\ (lastOutcome.settled = "rejected" /\ lastOutcome.attempts > 0)
          => lastOutcome.attempts = maxRetries
     /\ \A c \in DOMAIN pc :
          (pc[c] = "sleeping" /\ pc'[c] = "awaiting") => now >= timer[c]
     /\ ReportsSuccess =>
          /\ providerCalls' = providerCalls
          /\ \E c \in DOMAIN pc : pc[c] = "awaiting" /\ lastOutcome'.attempts = attempt[c]
          /\ lastOutcome'.value \in {toAnalysis(r) : r \in ProviderResults}]_vars

\* C7 witness: a call fulfilled by its third attempt, after sleeping 1000 then 2000 ms
C7_Witness ==
  /\ lastOutcome.settled = "fulfilled"
  /\ lastOutcome.attempts = maxRetries
  /\ lastOutcome.delays = <<retryDelay, 2 * retryDelay>>
  /\ lastOutcome.value.labels # <<>>

\* C8: the breaker is touched only when a call enters and when an admitted call
\* settles: a call that settles rejected has added exactly 1 to failureCount
\* (whatever its number of attempts), a call that settles fulfilled has recorded one
\* success and no failure, and a failed attempt that is retried reports nothing.
C8_OneReportPerCall ==
  [][/\ ReportsFailure =>
          /\ circuitBreaker'.failureCount = circuitBreaker.failureCount + 1
          /\ failStreak' = failStreak + 1
          /\ last'.op = "failure"
     /\ ReportsSuccess =>
          /\ circuitBreaker'.failureCount \in {0, circuitBreaker.failureCount}
          /\ circuitBreaker'.lastFailureTime = circuitBreaker.lastFailureTime
          /\ circuitBreaker.state = "HALF_OPEN" =>
               circuitBreaker'.successCount \in {0, circuitBreaker.successCount + 1}
          /\ failStreak' = 0
          /\ last'.op = "success"
     /\ ~(ReportsFailure \/ ReportsSuccess) =>
          /\ failStreak' = failStreak
          /\ circuitBreaker'.failureCount = circuitBreaker.failureCount
          /\ circuitBreaker'.lastFailureTime = circuitBreaker.lastFailureTime
     /\ ~(ReportsFailure \/ ReportsSuccess \/ Enters) => circuitBreaker' = circuitBreaker]_vars

\* C8 witness: a call settled rejected after three attempts, failureCount raised by 1
C8_Witness ==
  /\ lastOutcome.settled = "rejected" /\ lastOutcome.attempts = maxRetries
  /\ last.op = "failure"
  /\ circuitBreaker.failureCount = last.failureCount + 1
  /\ circuitBreaker.failureCount = 2

\* C9: a call whose provider error is Unauthenticated, PermissionDenied or
\* QuotaExceeded rejects with VISION_AUTH_ERROR ('Vision API authentication failed'),
\* VISION_PERMISSION_ERROR or VISION_QUOTA_ERROR respectively.
C9_ClassifiedError ==
  (lastOutcome.settled = "rejected" /\ lastOutcome.attempts > 0) =>
    /\ lastOutcome.rawError.code = "UNAUTHENTICATED" =>
         /\ lastOutcome.error.code = "VISION_AUTH_ERROR"
         /\ lastOutcome.error.message = "Vision API authentication failed"
    /\ lastOutcome.rawError.code = "PERMISSION_DENIED" =>
         lastOutcome.error.code = "VISION_PERMISSION_ERROR"
    /\ lastOutcome.rawError.code = "QUOTA_EXCEEDED" =>
         lastOutcome.error.code = "VISION_QUOTA_ERROR"

\* C10: a call whose every attempt lost the race to the timeout is retried up to
\* maxRetries attempts and rejects with VISION_TIMEOUT.
C10_TimeoutError ==
  (/\ lastOutcome.settled = "rejected" /\ lastOutcome.attempts > 0
   /\ lastOutcome.timeouts = lastOutcome.attempts)
    => /\ lastOutcome.attempts = maxRetries
       /\ lastOutcome.error.code = "VISION_TIMEOUT"

\* C11: recovery.  With calls kept being made, time advancing and every provider
\* call succeeding from FailUntil on, an OPEN breaker leads to a CLOSED one: it never
\* stays OPEN forever.
C11_Recovery == (circuitBreaker.state = "OPEN") ~> (circuitBreaker.state = "CLOSED")

\* the breaker has just closed on the second success of a half-open probe, at least
\* resetTimeout after the failure that opened it
C11_Witness ==
  /\ circuitBreaker.state = "CLOSED"
  /\ last.op = "success"
  /\ last.state = "HALF_OPEN"
  /\ circuitBreaker.lastFailureTime # Null
  /\ now - ToNumber(circuitBreaker.lastFailureTime) >= resetTimeout

\* ------------------------------------------------------------ rating claims
\* a calculateRating call on an array has ended / has returned a result
Called == request.op = "calculateRating" /\ request.isArray
Rated == Called /\ ~response.threw

\* a label object with a non-empty description
WellFormed(label) == ~label.null /\ "description" \in label.has /\ label.description # ""
labelTextOf(label) == trim(toLowerCase(label.description))
confidenceOf(label) == IF "score" \in label.has THEN label.score ELSE 0

pointsOf(detectedItems) == sum([i \in 1..Len(detectedItems) |-> detectedItems[i].points])

\* C12: the score of every returned rating is between 0 and 100.
C12_ScoreBounded == Rated => (0 <= response.score /\ response.score <= 100)

\* the labels whose text no earlier label of the array has
firstOccurrences(labels) ==
  LET first(i) == \A j \in 1..(i - 1) :
                    ~WellFormed(labels[j]) \/ ~WellFormed(labels[i])
                      \/ labelTextOf(labels[j]) # labelTextOf(labels[i])
      kept == {i \in 1..Len(labels) : first(i)}
      nth(k) == CHOOSE i \in kept : Cardinality({j \in kept : j < i}) = k - 1
  IN  [k \in 1..Cardinality(kept) |-> labels[nth(k)]]

\* C13: within one call a (match type, keyword, label text) triple is counted at most
\* once: no two detected items share it, the points before the contextual adjustment
\* are the sum over the detected items, and a repeated label adds nothing, so the
\* result is that of the array without the repetitions.
C13_CountedOnce ==
  Rated =>
    /\ \A i, j \in 1..Len(response.detectedItems) :
         (/\ response.detectedItems[i].matchType = response.detectedItems[j].matchType
          /\ response.detectedItems[i].item = response.detectedItems[j].item
          /\ trim(toLowerCase(response.detectedItems[i].originalLabel))
               = trim(toLowerCase(response.detectedItems[j].originalLabel)))
           => i = j
    /\ response.rawScore
         = pointsOf(response.detectedItems)
             + calculateContextualAdjustments(response.detectedItems, request.labels)
    /\ firstOccurrences(request.labels) # request.labels
         => response = calculateRating(request.items, TRUE,
                                       firstOccurrences(request.labels),
                                       request.textAnnotations)

\* a label text occurs twice with a match, and two spans hold the same pattern
C13_Witness ==
  /\ Rated
  /\ \E i, j \in 1..Len(request.labels) :
       /\ i < j
       /\ labelTextOf(request.labels[i]) = labelTextOf(request.labels[j])
       /\ findMatches(request.items, labelTextOf(request.labels[i]), 100) # <<>>
  /\ \E i, j \in 1..Len(request.textAnnotations) :
       /\ i < j
       /\ Includes(toLowerCase(request.textAnnotations[i]), "a24")
       /\ Includes(toLowerCase(request.textAnnotations[j]), "a24")
  /\ Len(response.detectedItems) > 1

\* C14: a label whose lower-cased, trimmed text is a dictionary key has exactly one
\* match, of type exact and matchScore 1.0, also when the text is a key of semanticMap;
\* the items detected for that label are that exact match only.
C14_ExactOnly ==
  Called =>
    \A i \in 1..Len(request.labels) :
      (WellFormed(request.labels[i])
         /\ hasOwnProperty(request.items, labelTextOf(request.labels[i])))
        => LET label == request.labels[i]
               matches == findMatches(request.items, labelTextOf(label), confidenceOf(label))
           IN  /\ Len(matches) = 1
               /\ matches[1].matchType = "exact"
               /\ matches[1].matchScore = Frac(1, 1)
               /\ matches[1].keyword = labelTextOf(label)
               /\ ~response.threw =>
                     \A k \in 1..Len(response.detectedItems) :
                       response.detectedItems[k].originalLabel = label.description
                         => /\ response.detectedItems[k].matchType = "exact"
                            /\ response.detectedItems[k].item = labelTextOf(label)

\* 'book' is a dictionary key and a key of semanticMap whose keyword 'poetry' has a weight
C14_Witness ==
  /\ Rated
  /\ \E i \in 1..Len(request.labels) :
       /\ WellFormed(request.labels[i])
       /\ hasOwnProperty(request.items, labelTextOf(request.labels[i]))
       /\ hasOwnProperty(semanticMap, labelTextOf(request.labels[i]))
       /\ getSemanticMatches(request.items, labelTextOf(request.labels[i])) # <<>>
  /\ \E k \in 1..Len(response.detectedItems) : response.detectedItems[k].item = "book"

\* C15: calculateRating throws only when labels is not an array.
C15_ThrowsOnlyForNonArray ==
  request.op = "calculateRating" => (response.threw <=> ~request.isArray)

\* C16: labels matcha 1.0 and tote bag 1.0 without text spans give two exact matches
\* with points 15 and 12, no contextual bonus, and score 27.
C16_ScenarioB ==
  (/\ Called
   /\ request.items = ObjectLiteral(performativeItemsLiteral)
   /\ request.labels = <<Label("matcha", 100), Label("tote bag", 100)>>
   /\ request.textAnnotations = <<>>)
    => /\ ~response.threw
       /\ Len(response.detectedItems) = 2
       /\ response.detectedItems[1].matchType = "exact"
       /\ response.detectedItems[2].matchType = "exact"
       /\ response.detectedItems[1].points = 15
       /\ response.detectedItems[2].points = 12
       /\ response.rawScore = pointsOf(response.detectedItems)
       /\ response.score = 27

C18_NoMatchZero ==
  (/\ Called
   /\ processTextAnnotations(request.textAnnotations) = <<>>
   /\ \A i \in 1..Len(request.labels) :
        /\ WellFormed(request.labels[i])
        /\ "score" \in request.labels[i].has
        /\ findMatches(request.items, labelTextOf(request.labels[i]),
                         confidenceOf(request.labels[i])) = <<>>)
    => /\ ~response.threw
       /\ response.score = 0
       /\ response.detectedItems = <<>>

\* C19: the points of a label matched exactly with a confidence between 0 and 1 are
\* the dictionary weight, not scaled by the confidence, and when every label is such
\* a label the score is the sum of the weights.
C19_ExactUnscaled ==
  Rated =>
    /\ \A k \in 1..Len(response.detectedItems) :
         (/\ response.detectedItems[k].matchType = "exact"
          /\ response.detectedItems[k].confidence > 0
          /\ response.detectedItems[k].confidence < 100)
           => response.detectedItems[k].points
                = Get(request.items, response.detectedItems[k].item)
    /\ (/\ Len(response.detectedItems) = Len(request.labels)
        /\ \A k \in 1..Len(response.detectedItems) :
             /\ response.detectedItems[k].matchType = "exact"
             /\ response.detectedItems[k].confidence > 0
             /\ response.detectedItems[k].confidence < 100)
         => response.score
              = sum([k \in 1..Len(response.detectedItems) |->
                       Get(request.items, response.detectedItems[k].item)])

\* the dictionary with every entry of newItems written under its lower-cased key
RECURSIVE merged(_, _)
merged(items, newItems) ==
  IF Len(newItems) = 0 THEN items
  ELSE merged(Put(items, toLowerCase(newItems[1].key), newItems[1].value), Tail(newItems))

\* C20: updatePerformativeItems fails exactly when some weight is outside [0, 100],
\* and then merges no entry; otherwise every entry is merged under its lower-cased
\* key, overwriting the old weight.
C20_UpdateAllOrNothing ==
  request.op = "updatePerformativeItems" =>
    LET invalid == \E i \in 1..Len(request.newItems) :
                     request.newItems[i].value < 0 \/ request.newItems[i].value > 100
    IN  /\ response.threw <=> invalid
        /\ invalid => performativeItems = request.items
        /\ ~invalid => performativeItems = merged(request.items, request.newItems)

\* ---- C21: generateMessage ----
Thresholds == {0, 5, 15, 25, 35, 45, 55, 65, 75, 85, 95, 100}
Reached(score) == {threshold \in Thresholds : threshold <= score}
Highest(thresholds) == CHOOSE t \in thresholds : \A u \in thresholds : u <= t

C21_BelowWitness ==
  Rated /\ response.score < 0 /\ response.message = Get(scoreMessages, 0)

\* a rating at the cap carries the message of threshold 100
C21_CapWitness ==
  Rated /\ response.score = 100 /\ response.message = Get(scoreMessages, 100)

\* ---- C22: findMatches ----
Found == request.op = "findMatches"
SimilarKeys(items, labelText) ==
  {i \in 1..Len(items) :
     Greater(calculateStringSimilarity(labelText, items[i].key), Frac(1, 2))}

\* C22: a list findMatches returns holds a partial match only when the label is no
\* dictionary key and has no semantic match; it never holds a semantic and a partial
\* match together; every partial match has a similarity above 0.5; it holds at most
\* 3 matches, in descending order of matchScore
C22_PartialLast ==
  Found =>
    LET labelText == request.labels[1].description
        matches == response.matches
        Is(type) == {i \in 1..Len(matches) : matches[i].matchType = type}
    IN  /\ Is("partial") # {} =>
              /\ ~hasOwnProperty(request.items, labelText)
              /\ getSemanticMatches(request.items, labelText) = <<>>
        /\ Is("semantic") = {} \/ Is("partial") = {}
        /\ \A i \in Is("partial") :
              /\ matches[i].matchScore
                   = calculateStringSimilarity(labelText, matches[i].keyword)
              /\ Greater(matches[i].matchScore, Frac(1, 2))
        /\ Len(matches) <= 3
        /\ \A i, j \in 1..Len(matches) :
              i < j => ~Greater(matches[j].matchScore, matches[i].matchScore)

\* a label close to more than three keys: three partial matches come back, the
\* closest first
C22_Witness ==
  /\ Found
  /\ Cardinality(SimilarKeys(request.items, request.labels[1].description)) > 3
  /\ Len(response.matches) = 3
  /\ \A i \in 1..3 : response.matches[i].matchType = "partial"
  /\ Greater(response.matches[1].matchScore, response.matches[3].matchScore)

\* a label with a semantic match and a similar key: only the semantic match comes back
C22_SemanticWitness ==
  /\ Found
  /\ SimilarKeys(request.items, request.labels[1].description) # {}
  /\ Len(response.matches) = 1
  /\ response.matches[1].matchType = "semantic"

\* ---- C23: diversity bonus ----
ItemNames == {response.detectedItems[i].item : i \in 1..Len(response.detectedItems)}
LabelTexts == {toLowerCase(request.labels[i].description) : i \in 1..Len(request.labels)}
\* the part of the raw score that is neither points, synergy, penalty nor confidence bonus
Diversity ==
  response.rawScore
    - sum([i \in 1..Len(response.detectedItems) |-> response.detectedItems[i].points])
    - synergyBonus(ItemNames) - contextPenalty(LabelTexts)
    - confidenceBonus(response.detectedItems)
\* the categories one of whose listed names is the name of a detected item
Represented ==
  {i \in 1..Len(categories) :
     \E j \in 1..Len(response.detectedItems) : response.detectedItems[j].item \in categories[i]}

C23_UnlistedWitness ==
  /\ Rated
  /\ \E name \in ItemNames : \A i \in 1..Len(categories) : name \notin categories[i]
  /\ Cardinality(Represented) = 1
  /\ Diversity = 0

\* ---- C29: diversity bonus of a single item ----
\* C29: a rating with a single detected item has diversity bonus 0
C29_SingleItemNoDiversity ==
  (Rated /\ Cardinality(ItemNames) = 1) => Diversity = 0

\* ---- C30: processTextAnnotations ----
Read == request.op = "processTextAnnotations"

\* C30: every item processTextAnnotations returns has matchType 'text', the full
\* weight of its phrase and confidence 0.9, and no phrase is returned twice; no item
\* has matchType 'text-partial'
C30_TextOnly ==
  Read =>
    LET items == response.detectedItems
    IN  /\ \A i \in 1..Len(items) :
              /\ items[i].matchType = "text"
              /\ hasOwnProperty(textPatterns, items[i].item)
              /\ items[i].points = Get(textPatterns, items[i].item)
              /\ items[i].confidence = 90
        /\ \A i, j \in 1..Len(items) : items[i].item = items[j].item => i = j

\* a span that holds a single-word phrase and is at most 3 characters longer than it,
\* in second place: the phrase is returned once, as a 'text' match
C30_Witness ==
  /\ Read
  /\ Len(request.textAnnotations) >= 2
  /\ \E i \in 2..Len(request.textAnnotations), k \in 1..Len(textPatterns) :
       LET span == request.textAnnotations[i]
           pattern == textPatterns[k].key
       IN  /\ ~Includes(pattern, " ")
           /\ Includes(toLowerCase(span), pattern)
           /\ Len(span) <= Len(pattern) + 3
           /\ ~Includes(toLowerCase(request.textAnnotations[1]), pattern)
           /\ \E j \in 1..Len(response.detectedItems) :
                response.detectedItems[j]
                  = Item(pattern, textPatterns[k].value, 90, "text",
                         "Text: \"" \o pattern \o "\"")

\* ---- C24: a CLOSED breaker is below the threshold ----
InFlight == {c \in DOMAIN pc : pc[c] # "idle"}

\* C24: whenever the breaker is CLOSED, failureCount is below failureThreshold, also
\* when several calls are in flight
C24_ClosedBelowThreshold ==
  circuitBreaker.state = "CLOSED" => circuitBreaker.failureCount < failureThreshold

\* two calls are in flight and the breaker is one failure from opening
C24_Witness ==
  /\ Cardinality(InFlight) = 2
  /\ circuitBreaker.state = "CLOSED"
  /\ circuitBreaker.failureCount = failureThreshold - 1

\* ---- C25: the range of successCount ----
\* C25: successCount is 0 whenever the breaker is CLOSED or OPEN, and at least 0 and
\* below halfOpenSuccessThreshold whenever it is HALF_OPEN
C25_SuccessCountRange ==
  /\ circuitBreaker.state \in {"CLOSED", "OPEN"} => circuitBreaker.successCount = 0
  /\ circuitBreaker.state = "HALF_OPEN" =>
        /\ 0 <= circuitBreaker.successCount
        /\ circuitBreaker.successCount < halfOpenSuccessThreshold

\* a success is counted while a call is still in flight
C25_Witness ==
  /\ circuitBreaker.state = "HALF_OPEN"
  /\ circuitBreaker.successCount = halfOpenSuccessThreshold - 1
  /\ InFlight # {}

\* ---- C26: provider attempts and the OPEN breaker ----
\* this step starts a provider attempt
StartsAttempt == providerCalls' = providerCalls + 1

\* C26: no provider attempt starts while the breaker is OPEN, retry attempts of
\* calls admitted earlier included
C26_NoAttemptWhileOpen ==
  [][StartsAttempt => circuitBreaker'.state # "OPEN"]_vars

\* ---- C28: successes that count toward closing ----
\* C28: the success of a call admitted while CLOSED leaves successCount alone and
\* does not close the breaker
C28_OnlyProbesCount ==
  [][(ReportsSuccess /\ lastOutcome'.admittedIn = "CLOSED") =>
       /\ circuitBreaker'.successCount = circuitBreaker.successCount
       /\ circuitBreaker'.state = "CLOSED" => circuitBreaker.state = "CLOSED"]_vars

\* ---- C27: calls that end without a provider attempt ----
\* this step is a whole analyzeImage call: it throws before its first attempt
RejectedAtEntry == Enters /\ providerCalls' = providerCalls
ClientError == Err("Vision client not initialized", "", "")

\* C27: a call that ends without a provider attempt is rejected with CircuitOpen, for
\* the missing client or for the invalid buffer, and leaves failureCount,
\* successCount and lastFailureTime as they were; after a CircuitOpen rejection the
\* breaker is OPEN as before
C27_RejectionFrame ==
  [][RejectedAtEntry =>
       /\ lastOutcome'.settled = "rejected"
       /\ lastOutcome'.error \in {CircuitOpenError, ClientError, InvalidBufferError}
       /\ circuitBreaker'.failureCount = circuitBreaker.failureCount
       /\ circuitBreaker'.successCount = circuitBreaker.successCount
       /\ circuitBreaker'.lastFailureTime = circuitBreaker.lastFailureTime
       /\ lastOutcome'.error = CircuitOpenError =>
             circuitBreaker.state = "OPEN" /\ circuitBreaker'.state = "OPEN"]_vars

\* a call was rejected with CircuitOpen some time after the last failure, and the
\* time of the last failure is still the old one
C27_Witness ==
  /\ last.op = "check"
  /\ lastOutcome.settled = "rejected"
  /\ lastOutcome.error = CircuitOpenError
  /\ circuitBreaker.state = "OPEN"
  /\ circuitBreaker.failureCount = failureThreshold
  /\ 0 < Elapsed
  /\ Elapsed < resetTimeout

\* a call was rejected for the missing client
C27_ClientWitness ==
  ~client /\ last.op = "check" /\ lastOutcome.error = ClientError

\* a call with an invalid buffer was rejected after its check had moved the breaker
\* from OPEN to HALF_OPEN
C27_BufferWitness ==
  /\ last.op = "check"
  /\ last.state = "OPEN"
  /\ lastOutcome.error = InvalidBufferError
  /\ circuitBreaker.state = "HALF_OPEN"

====
